---- MODULE Spec2Model ----
(***************************************************************************)
(* A model of the Ray job wrapper (wrap_isaac_ray_resources.py) and of the *)
(* constrained hyperparameter samplers (rl_games_cfg.py, vision_cfg.py).   *)
(*                                                                         *)
(* The module holds several state machines over one set of variables.      *)
(* Each machine has its own specification and leaves the variables of the  *)
(* other machines at their idle values:                                    *)
(*   SpecResolver  _get_batch_size_divisors / get_valid_batch_size         *)
(*   SpecCnn       get_cnn_layers                                          *)
(*   SpecSplit     split_commands                                          *)
(*   SpecCfg       the constructors of RLGamesJobCfg, CameraJobCfg,        *)
(*                 ResNetCameraJob, TheiaCameraJob and HandCfg             *)
(*   Spec          the __main__ block, main and the remote jobs            *)
(*   SpecStream    the user-command branch of execute_command with its     *)
(*                 child process and the two pipes                         *)
(* Python strings are TLA+ strings; Python lists are sequences.            *)
(***************************************************************************)
EXTENDS Integers, Sequences, FiniteSets, TLC

VARIABLES
    \* _get_batch_size_divisors / get_valid_batch_size: the two values
    \* get_valid_batch_size reads from its config, then the arguments, the
    \* list and the value returned
    rpc, num_envs, horizon_length, batch_size, min_size, divisors,
    minibatch_size,
    \* get_cnn_layers: the sampled layer count, the loop position, the
    \* locals layers and size
    cpc, num_layers, layer_i, layers, size,
    \* split_commands: its argument and its return value
    spc, split_args, split_out,
    \* the __main__ block and main: the parsed arguments (args.commands,
    \* args.test, the cluster counts), the locals commands, the per-worker
    \* shares, the loop position, the remote jobs, results, and the lines
    \* printed; overtaken records that some job finished before a job
    \* submitted earlier
    pc, argv, test_mode, cluster, commands, per_worker, submit_i, jobs,
    results, printed, overtaken,
    \* the user-command branch of execute_command: its position, the child
    \* process (the writes it makes, how many are done, whether it runs, its
    \* exit status), the two pipes and their capacity in lines, the lines
    \* printed live, what communicate() returned, and the value returned
    epc, child_script, child_pos, child_state, returncode, pipe_cap,
    stdout_pipe, stderr_pipe, live_lines, comm_stdout, comm_stderr,
    exec_result,
    \* the job configuration constructors: the class the process constructs,
    \* the dict that is the default value of its cfg parameter (the entries
    \* of cfg["runner_args"] and cfg["hydra_args"] in the order they were
    \* first inserted), the stack of the __init__ calls in progress, and
    \* whether the last construction has returned
    bklass, cfg, stack, constructed

resolverVars == <<rpc, num_envs, horizon_length, batch_size, min_size,
                  divisors, minibatch_size>>
cnnVars == <<cpc, num_layers, layer_i, layers, size>>

splitVars == <<spc, split_args, split_out>>

mainVars == <<pc, argv, test_mode, cluster, commands, per_worker, submit_i,
              jobs, results, printed, overtaken>>

streamVars == <<epc, child_script, child_pos, child_state, returncode,
                pipe_cap, stdout_pipe, stderr_pipe, live_lines, comm_stdout,
                comm_stderr, exec_result>>

cfgVars == <<bklass, cfg, stack, constructed>>

vars == <<resolverVars, cnnVars, splitVars, mainVars, streamVars, cfgVars>>

\* What each machine leaves unchanged: the variables of the others.
notResolver == <<cnnVars, splitVars, mainVars, streamVars, cfgVars>>
notCnn == <<resolverVars, splitVars, mainVars, streamVars, cfgVars>>
notSplit == <<resolverVars, cnnVars, mainVars, streamVars, cfgVars>>
notMain == <<resolverVars, cnnVars, splitVars, streamVars, cfgVars>>
notCfg == <<resolverVars, cnnVars, splitVars, mainVars, streamVars>>
notStream == <<resolverVars, cnnVars, splitVars, mainVars, cfgVars>>

(***************************************************************************)
(* The idle values of each machine's variables, held while another         *)
(* machine's specification runs.                                           *)
(***************************************************************************)

ResolverIdle ==
    /\ rpc = "idle"
    /\ num_envs = 0
    /\ horizon_length = 0
    /\ batch_size = 0
    /\ min_size = 0
    /\ divisors = [raised |-> FALSE, value |-> << >>]
    /\ minibatch_size = 0

CnnIdle ==
    /\ cpc = "idle"
    /\ num_layers = 0
    /\ layer_i = 0
    /\ layers = << >>
    /\ size = 0

SplitIdle ==
    /\ spc = "idle"
    /\ split_args = << >>
    /\ split_out = << >>

NoShare == [num |-> 0, den |-> 1]

MainIdle ==
    /\ pc = "idle"
    /\ argv = << >>
    /\ test_mode = FALSE
    /\ cluster = [gpu |-> 0, cpu |-> 0, ram_gb |-> 0]
    /\ commands = << >>
    /\ per_worker = [gpus |-> NoShare, cpus |-> NoShare, memory |-> NoShare]
    /\ submit_i = 0
    /\ jobs = << >>
    /\ results = << >>
    /\ printed = << >>
    /\ overtaken = FALSE

StreamIdle ==
    /\ epc = "idle"
    /\ child_script = << >>
    /\ child_pos = 0
    /\ child_state = "none"
    /\ returncode = 0
    /\ pipe_cap = 0
    /\ stdout_pipe = << >>
    /\ stderr_pipe = << >>
    /\ live_lines = << >>
    /\ comm_stdout = << >>
    /\ comm_stderr = << >>
    /\ exec_result = << >>

CfgIdle ==
    /\ bklass = "idle"
    /\ cfg = << >>
    /\ stack = << >>
    /\ constructed = FALSE

(***************************************************************************)
(* Python arithmetic                                                       *)
(***************************************************************************)

\* Python's a // b on integers, b # 0: the floor of the quotient.
PyFloorDiv(a, b) ==
    a \div b

\* Python's a % b on integers, b # 0: the result has the sign of b.
PyMod(a, b) ==
    a - b * PyFloorDiv(a, b)

\* Python's range(lo, hi) as a list: lo, lo+1, ..., hi-1 (empty when hi <= lo).
PyRange(lo, hi) ==
    IF hi <= lo THEN << >> ELSE [k \in 1..(hi - lo) |-> lo + k - 1]

\* The decimal digit d as a one-character string.
DigitChar(d) ==
    SubSeq("0123456789", d + 1, d + 1)

\* The value of a one-character decimal digit.
DigitValue(c) ==
    CHOOSE d \in 0..9 : DigitChar(d) = c

\* Python's str(n) for an integer n >= 0.
RECURSIVE StrOfInt(_)
StrOfInt(n) ==
    IF n < 10 THEN DigitChar(n)
    ELSE StrOfInt(n \div 10) \o DigitChar(n % 10)

\* Mutant of IntOfStr: the digits are read in base 16.
RECURSIVE IntOfStrBase16(_)
IntOfStrBase16(s) ==
    IF Len(s) = 1 THEN DigitValue(s)
    ELSE 16 * IntOfStrBase16(SubSeq(s, 1, Len(s) - 1))
         + DigitValue(SubSeq(s, Len(s), Len(s)))

\* Python's int(s) for a non-empty string of decimal digits.
RECURSIVE IntOfStr(_)
IntOfStr(s) ==
    IF Len(s) = 1 THEN DigitValue(s)
    ELSE 10 * IntOfStr(SubSeq(s, 1, Len(s) - 1))
         + DigitValue(SubSeq(s, Len(s), Len(s)))

(***************************************************************************)
(* ray.tune sampling primitives, as the sets of values a sample can be     *)
(***************************************************************************)

\* tune.choice(categories).sample(): any element of the list.
Choice(categories) ==
    {categories[k] : k \in DOMAIN categories}

\* tune.randint(lower, upper).sample(): lower inclusive, upper exclusive.
Randint(lower, upper) ==
    lower..(upper - 1)

(***************************************************************************)
(* ConstrainedLayerGenerator: get_cnn_layers in vision_cfg.py              *)
(***************************************************************************)

\* size = 64, the initial input size.
InitialSize == 64

\* num_layers = tune.randint(2, 3)
NumLayersLower == 2
NumLayersUpper == 3

KernelCandidates == <<3, 4, 6, 8, 10, 12>>
StrideChoices == <<"1", "2", "3", "4">>
PaddingChoices == <<"0", "1">>

\* "filters": tune.randint(16, 32).sample(); the model samples the two ends
\* of that range, the filter count takes no part in the size computation.
FilterSamples == {k \in Randint(16, 32) : k = 16 \/ k = 31}

\* Mutant of ValidKernels: the candidates without the filter  k <= size.
ValidKernelsUnfiltered(sz) ==
    KernelCandidates

\* valid_kernels = [k for k in [3, 4, 6, 8, 10, 12] if k <= size]
ValidKernels(sz) ==
    SelectSeq(KernelCandidates, LAMBDA k : k <= sz)

\* [str(k) for k in valid_kernels]
KernelStrings(valid) ==
    [k \in DOMAIN valid |-> StrOfInt(valid[k])]

\* next_size = ((size + 2 * padding - kernel) // stride) + 1
NextSize(sz, kernel, stride, padding) ==
    PyFloorDiv(sz + 2 * padding - kernel, stride) + 1

\* The dict appended to layers.
LayerSpec(filters, kernel, stride, padding) ==
    [filters     |-> filters,
     kernel_size |-> StrOfInt(kernel),
     strides     |-> StrOfInt(stride),
     padding     |-> StrOfInt(padding)]

\* Mutant of LayerIterations: the loop runs once more than sampled.
LayerIterationsOneMore(n) ==
    PyRange(0, n + 1)

\* range(num_layers.sample()), the values the for loop runs over.
LayerIterations(n) ==
    PyRange(0, n)

CnnInit ==
    /\ ResolverIdle
    /\ SplitIdle
    /\ MainIdle
    /\ StreamIdle
    /\ CfgIdle
    /\ cpc = "call"
    /\ num_layers = 0
    /\ layer_i = 0
    /\ layers = << >>
    /\ size = 0

\* Entry of get_cnn_layers: layers = [], size = 64, and the loop's range is
\* built from num_layers.sample().
CnnEnter ==
    /\ cpc = "call"
    /\ \E n \in Randint(NumLayersLower, NumLayersUpper) : num_layers' = n
    /\ layers' = << >>
    /\ size' = InitialSize
    /\ layer_i' = 0
    /\ cpc' = "loop"
    /\ UNCHANGED notCnn

\* One pass of the for loop's body, with both of its breaks.
CnnLayer ==
    /\ cpc = "loop"
    /\ layer_i < Len(LayerIterations(num_layers))
    /\ LET valid_kernels == ValidKernels(size)
       IN  IF valid_kernels = << >>
           THEN /\ cpc' = "return"
                /\ UNCHANGED <<layer_i, layers, size>>
           ELSE \E ks \in Choice(KernelStrings(valid_kernels)),
                   ss \in Choice(StrideChoices),
                   ps \in Choice(PaddingChoices),
                   filters \in FilterSamples :
                    LET kernel    == IntOfStr(ks)
                        stride    == IntOfStr(ss)
                        padding   == IntOfStr(ps)
                        next_size == NextSize(size, kernel, stride, padding)
                    IN  IF next_size <= 0
                        THEN /\ cpc' = "return"
                             /\ UNCHANGED <<layer_i, layers, size>>
                        ELSE /\ layers' = Append(layers,
                                    LayerSpec(filters, kernel, stride, padding))
                             /\ size' = next_size
                             /\ layer_i' = layer_i + 1
                             /\ cpc' = "loop"
    /\ UNCHANGED num_layers
    /\ UNCHANGED notCnn

\* The for loop is exhausted.
CnnLoopEnd ==
    /\ cpc = "loop"
    /\ layer_i >= Len(LayerIterations(num_layers))
    /\ cpc' = "return"
    /\ UNCHANGED <<num_layers, layer_i, layers, size>>
    /\ UNCHANGED notCnn

\* return layers
CnnReturn ==
    /\ cpc = "return"
    /\ cpc' = "returned"
    /\ UNCHANGED <<num_layers, layer_i, layers, size>>
    /\ UNCHANGED notCnn

CnnNext ==
    \/ CnnEnter
    \/ CnnLayer
    \/ CnnLoopEnd
    \/ CnnReturn

SpecCnn == CnnInit /\ [][CnnNext]_vars

\* The spatial size current at layer i of ls: the initial size taken
\* through layers 1..i-1, each read back from its LayerSpec.
RECURSIVE SizeBefore(_, _)
SizeBefore(ls, i) ==
    IF i = 1 THEN InitialSize
    ELSE NextSize(SizeBefore(ls, i - 1),
                  IntOfStr(ls[i - 1].kernel_size),
                  IntOfStr(ls[i - 1].strides),
                  IntOfStr(ls[i - 1].padding))

\* C5: the spatial size computed after each appended layer is a positive
\* integer, the running size is that of the last appended layer, and no more
\* layers are returned than the sampled num_layers.
C5_CnnSizesPositiveAndLengthBounded ==
    cpc \in {"loop", "return", "returned"} =>
        /\ \A i \in 1..Len(layers) : SizeBefore(layers, i + 1) >= 1
        /\ size = SizeBefore(layers, Len(layers) + 1)
        /\ size >= 1
        /\ Len(layers) <= num_layers

\* get_cnn_layers returned two layers, the second of which took the size
\* from 14 down to 1.
C5_Witness ==
    /\ cpc = "returned"
    /\ Len(layers) = 2
    /\ SizeBefore(layers, 2) = 14
    /\ size = 1

\* C6: no appended layer has a kernel larger than the spatial size current
\* at that layer, the size being 64 taken through the layers before it.
C6_CnnKernelFitsCurrentSize ==
    \A i \in 1..Len(layers) :
        /\ IntOfStr(layers[i].kernel_size) <= SizeBefore(layers, i)
        /\ \E k \in DOMAIN KernelCandidates :
              KernelCandidates[k] = IntOfStr(layers[i].kernel_size)

\* A second layer with the largest kernel, 12, appended at size 14.
C6_Witness ==
    /\ cpc = "returned"
    /\ Len(layers) = 2
    /\ SizeBefore(layers, 2) = 14
    /\ layers[2].kernel_size = "12"

\* For every size from 1 to the initial size, every kernel the filter lets
\* through and every stride and padding that can be drawn, the next size is
\* at least 1 and at most the current size.
NextSizeWithinBounds ==
    \A sz \in 1..InitialSize :
        \A k \in DOMAIN ValidKernels(sz), s \in DOMAIN StrideChoices,
           p \in DOMAIN PaddingChoices :
            LET next_size == NextSize(sz, ValidKernels(sz)[k],
                                      IntOfStr(StrideChoices[s]),
                                      IntOfStr(PaddingChoices[p]))
            IN  /\ next_size >= 1
                /\ next_size <= sz

\* The filtered kernel list is empty exactly for the sizes below 3.
NoKernelOnlyBelowThree ==
    \A sz \in 0..InitialSize : (ValidKernels(sz) = << >>) <=> (sz < 3)

\* C18: the stop at next_size <= 0 is never taken: the next size is always
\* between 1 and the current size, the kernel list is empty only below
\* size 3, every pass of the loop appends its layer, and get_cnn_layers,
\* which starts at 64 and is asked for 2 layers, returns exactly 2 layers.
C18_NextSizeStopNeverTaken ==
    /\ NextSizeWithinBounds
    /\ NoKernelOnlyBelowThree
    /\ cpc \in {"loop", "return", "returned"} =>
          /\ num_layers = 2
          /\ Len(layers) = layer_i
          /\ (cpc = "loop" /\ layer_i < num_layers) => size >= 3
          /\ \A i \in 1..Len(layers) :
                SizeBefore(layers, i + 1) <= SizeBefore(layers, i)
    /\ cpc \in {"return", "returned"} => Len(layers) = num_layers

\* Two layers were returned, the first of which (kernel 3, stride 1,
\* padding 1) left the size at 64.
C18_Witness ==
    /\ cpc = "returned"
    /\ Len(layers) = 2
    /\ SizeBefore(layers, 2) = InitialSize

(***************************************************************************)
(* split_commands in wrap_isaac_ray_resources.py                           *)
(***************************************************************************)

\* Python's s.endswith(suffix).
EndsWith(s, suffix) ==
    /\ Len(s) >= Len(suffix)
    /\ SubSeq(s, Len(s) - Len(suffix) + 1, Len(s)) = suffix

\* Python's sep.join(parts) for a list of strings.
RECURSIVE Join(_, _)
Join(sep, parts) ==
    IF parts = << >> THEN ""
    ELSE IF Len(parts) = 1 THEN parts[1]
    ELSE Join(sep, SubSeq(parts, 1, Len(parts) - 1)) \o sep \o parts[Len(parts)]

\* Mutant of SplitStep: at a marker, tokens collected before any marker are
\* dropped instead of being added as a command.
SplitStepDropsLeading(st, arg) ==
    IF EndsWith(arg, ".py")
    THEN [commands        |-> IF /\ st.current_command # << >>
                                 /\ EndsWith(st.current_command[1], ".py")
                              THEN Append(st.commands, Join(" ", st.current_command))
                              ELSE st.commands,
          current_command |-> <<arg>>]
    ELSE [commands        |-> st.commands,
          current_command |-> Append(st.current_command, arg)]

\* One pass of the for loop over args: st holds the locals commands and
\* current_command.
SplitStep(st, arg) ==
    IF EndsWith(arg, ".py")
    THEN [commands        |-> IF st.current_command # << >>
                              THEN Append(st.commands, Join(" ", st.current_command))
                              ELSE st.commands,
          current_command |-> <<arg>>]
    ELSE [commands        |-> st.commands,
          current_command |-> Append(st.current_command, arg)]

\* The locals after the for loop has run over the first k tokens of args.
RECURSIVE SplitLoop(_, _)
SplitLoop(args, k) ==
    IF k = 0 THEN [commands |-> << >>, current_command |-> << >>]
    ELSE SplitStep(SplitLoop(args, k - 1), args[k])

\* Mutant of SplitCommands: the final command is not added after the loop.
SplitCommandsNoFinal(args) ==
    SplitLoop(args, Len(args)).commands

\* split_commands(args): the loop, then the final command.
SplitCommands(args) ==
    LET st == SplitLoop(args, Len(args))
    IN  IF st.current_command # << >>
        THEN Append(st.commands, Join(" ", st.current_command))
        ELSE st.commands

\* The tokens the command line is built from, one of them an argument with
\* a space in it, and the bound on its length.
Tokens == {"train.py", "--lr", "0.1", "eval.py", "--steps", "10", "my run"}
MaxTokens == 3

\* The spec's worked example.
ExampleArgs == <<"train.py", "--lr", "0.1", "eval.py", "--steps", "10">>

\* All token lists of length at most n.
TokenLists(n) ==
    UNION {[1..k -> Tokens] : k \in 0..n}

SplitInit ==
    /\ ResolverIdle
    /\ CnnIdle
    /\ MainIdle
    /\ StreamIdle
    /\ CfgIdle
    /\ spc = "call"
    /\ split_args \in TokenLists(MaxTokens) \cup {ExampleArgs}
    /\ split_out = << >>

SplitCall ==
    /\ spc = "call"
    /\ split_out' = SplitCommands(split_args)
    /\ spc' = "returned"
    /\ UNCHANGED split_args
    /\ UNCHANGED notSplit

SplitNext ==
    SplitCall

SpecSplit == SplitInit /\ [][SplitNext]_vars

\* The positions of the marker tokens of args.
Markers(args) ==
    {i \in 1..Len(args) : EndsWith(args[i], ".py")}

\* The number of characters of the tokens args[a..b].
RECURSIVE TokenChars(_, _, _)
TokenChars(args, a, b) ==
    IF b < a THEN 0 ELSE Len(args[b]) + TokenChars(args, a, b - 1)

\* C9: the commands returned are, in input order, one per marker token (after
\* one leading command when the input starts with tokens that are no
\* marker); the command of a marker is that marker followed by every token
\* up to the next marker, joined by single spaces; the worked example gives
\* "train.py --lr 0.1" and "eval.py --steps 10".
C9_SplitAtMarkers ==
    spc = "returned" =>
        LET M    == Markers(split_args)
            lead == IF split_args # << >> /\ 1 \notin M THEN 1 ELSE 0
        IN  /\ Len(split_out) = Cardinality(M) + lead
            /\ \A m \in M :
                  LET rank == Cardinality({j \in M : j <= m})
                      last == IF \E j \in M : j > m
                              THEN (CHOOSE j \in M :
                                      j > m /\ \A h \in M : h > m => j <= h) - 1
                              ELSE Len(split_args)
                      job  == split_out[rank + lead]
                  IN  /\ job = Join(" ", SubSeq(split_args, m, last))
                      /\ SubSeq(job, 1, Len(split_args[m])) = split_args[m]
                      /\ EndsWith(job, split_args[last])
                      /\ Len(job) = TokenChars(split_args, m, last) + (last - m)
            /\ split_args = ExampleArgs =>
                  split_out = <<"train.py --lr 0.1", "eval.py --steps 10">>

\* The worked example, split.
C9_Witness ==
    /\ spc = "returned"
    /\ split_args = ExampleArgs
    /\ split_out = <<"train.py --lr 0.1", "eval.py --steps 10">>

(***************************************************************************)
(* BatchDivisorResolver: rl_games_cfg.py / vision_cfg.py                   *)
(***************************************************************************)

\* The default of the min_size parameter.
DefaultMinSize == 128

\* Bounds of the inputs the resolver is applied to.
MaxBatch == 12
MaxMinSize == 6
MaxNegative == 3

\* The spec's worked examples, added to the bounded inputs.
ExampleBatches == {127, 130, 4096}

BatchInputs == ((0 - MaxNegative)..MaxBatch) \cup ExampleBatches
MinSizeInputs == ((0 - MaxNegative)..MaxMinSize) \cup {DefaultMinSize}

\* Mutant of IsDivisor: the test is inverted (batch_size % i != 0).
IsDivisorInverted(b, i) ==
    PyMod(b, i) # 0

\* The comprehension's filter, batch_size % i == 0 (i # 0).
IsDivisor(b, i) ==
    PyMod(b, i) = 0

\* Mutant of GetBatchSizeDivisors: the list is built from batch_size down
\* (range(batch_size, min_size - 1, -1)).
GetBatchSizeDivisorsDescending(b, m) ==
    IF \E k \in 1..Len(PyRange(m, b + 1)) : PyRange(m, b + 1)[k] = 0
    THEN [raised |-> TRUE, value |-> << >>]
    ELSE LET found == SelectSeq(PyRange(m, b + 1), LAMBDA i : IsDivisor(b, i))
         IN  [raised |-> FALSE,
              value  |-> IF found # << >>
                         THEN [k \in 1..Len(found) |-> found[Len(found) + 1 - k]]
                         ELSE <<m>>]

\* Mutant of GetBatchSizeDivisors: the scan stops one short of batch_size
\* (range(min_size, batch_size)).
GetBatchSizeDivisorsShort(b, m) ==
    IF \E k \in 1..Len(PyRange(m, b + 1)) : PyRange(m, b + 1)[k] = 0
    THEN [raised |-> TRUE, value |-> << >>]
    ELSE LET found == SelectSeq(PyRange(m, b), LAMBDA i : IsDivisor(b, i))
         IN  [raised |-> FALSE,
              value  |-> IF found # << >> THEN found ELSE <<m>>]

\* _get_batch_size_divisors(batch_size, min_size).  The comprehension
\* evaluates batch_size % i for every i of range(min_size, batch_size + 1),
\* so it raises ZeroDivisionError when 0 is in that range.
GetBatchSizeDivisors(b, m) ==
    IF \E k \in 1..Len(PyRange(m, b + 1)) : PyRange(m, b + 1)[k] = 0
    THEN [raised |-> TRUE, value |-> << >>]
    ELSE LET found == SelectSeq(PyRange(m, b + 1), LAMBDA i : IsDivisor(b, i))
         IN  [raised |-> FALSE,
              value  |-> IF found # << >> THEN found ELSE <<m>>]

\* b ** e for e >= 0.
RECURSIVE Pow(_, _)
Pow(b, e) ==
    IF e = 0 THEN 1 ELSE b * Pow(b, e - 1)

\* Mutant of EnvCounts: the powers of two from 2**0, [2**x for x in range(0, 4)].
EnvCountsFromOne ==
    [k \in DOMAIN PyRange(0, 4) |-> Pow(2, PyRange(0, 4)[k])]

\* env_counts = [2**x for x in range(9, 13)]
EnvCounts ==
    [k \in DOMAIN PyRange(9, 13) |-> Pow(2, PyRange(9, 13)[k])]

\* horizon_lengths = [2**x for x in range(3, 8)]
HorizonLengths ==
    [k \in DOMAIN PyRange(3, 8) |-> Pow(2, PyRange(3, 8)[k])]

\* Either _get_batch_size_divisors is called with arguments from the bounded
\* inputs, or get_valid_batch_size is called with a config in which the two
\* tune.choice samplers of the env count block have been resolved.
ResolverInit ==
    /\ CnnIdle
    /\ SplitIdle
    /\ MainIdle
    /\ StreamIdle
    /\ CfgIdle
    /\ \/ /\ rpc = "call"
          /\ num_envs = 0
          /\ horizon_length = 0
          /\ batch_size \in BatchInputs
          /\ min_size \in MinSizeInputs
       \/ /\ rpc = "config"
          /\ num_envs \in Choice(EnvCounts)
          /\ horizon_length \in Choice(HorizonLengths)
          /\ batch_size = 0
          /\ min_size = DefaultMinSize
    /\ divisors = [raised |-> FALSE, value |-> << >>]
    /\ minibatch_size = 0

\* get_valid_batch_size(config) up to the call of _get_batch_size_divisors:
\* total_batch = horizon_length * num_envs, min_size left at its default.
TotalBatch ==
    /\ rpc = "config"
    /\ batch_size' = horizon_length * num_envs
    /\ rpc' = "call"
    /\ UNCHANGED <<num_envs, horizon_length, min_size, divisors,
                   minibatch_size>>
    /\ UNCHANGED notResolver

\* get_valid_batch_size: divisors = _get_batch_size_divisors(total_batch);
\* return divisors[0].
GetValidBatchSize ==
    /\ rpc = "call"
    /\ divisors' = GetBatchSizeDivisors(batch_size, min_size)
    /\ IF divisors'.raised
       THEN /\ rpc' = "raised"
            /\ minibatch_size' = minibatch_size
       ELSE /\ rpc' = "returned"
            /\ minibatch_size' = divisors'.value[1]
    /\ UNCHANGED <<num_envs, horizon_length, batch_size, min_size>>
    /\ UNCHANGED notResolver

ResolverNext ==
    \/ TotalBatch
    \/ GetValidBatchSize

SpecResolver == ResolverInit /\ [][ResolverNext]_vars

\* d divides b, stated by multiplication (b >= 1, d >= 1): the only
\* candidate factor is the floor of b / d.
Divides(d, b) ==
    (b \div d) * d = b

C4_ResolverSmallestDivisor ==
    (rpc = "returned" /\ batch_size >= 1 /\ min_size >= 1) =>
        LET D == {d \in min_size..batch_size : Divides(d, batch_size)}
        IN  /\ D # {} => /\ minibatch_size \in D
                         /\ \A d \in D : minibatch_size <= d
            /\ D = {} => minibatch_size = min_size
            /\ (batch_size = 4096 /\ min_size = 128) => minibatch_size = 128
            /\ (batch_size = 130 /\ min_size = 128) => minibatch_size = 130
            /\ (batch_size = 127 /\ min_size = 128) => minibatch_size = 128

\* The call of the spec's example 130 with 128, returned.
C4_Witness ==
    /\ rpc = "returned"
    /\ batch_size = 130
    /\ min_size = DefaultMinSize
    /\ minibatch_size = 130

\* C14: when get_valid_batch_size is called with an env count and a horizon
\* length the env count block can select, it does not raise, the total batch
\* is their product and is at least min_size, and the value returned is a
\* divisor found by the scan (never the fallback) that divides num_envs *
\* horizon_length evenly.
C14_SelectableBatchAlwaysDivisible ==
    num_envs # 0 =>
        /\ rpc # "raised"
        /\ rpc \in {"call", "returned"} =>
              /\ batch_size = num_envs * horizon_length
              /\ batch_size >= min_size
        /\ rpc = "returned" =>
              /\ PyMod(num_envs * horizon_length, minibatch_size) = 0
              /\ Len(divisors.value) >= 1
              /\ \A k \in 1..Len(divisors.value) :
                    PyMod(num_envs * horizon_length, divisors.value[k]) = 0

\* The smallest selectable pair, 512 environments and horizon 8: the total
\* batch 4096 resolved to 128.
C14_Witness ==
    /\ rpc = "returned"
    /\ num_envs = 512
    /\ horizon_length = 8
    /\ minibatch_size = 128

\* C19: for positive total_batch and min_size the value returned fails to
\* divide total_batch exactly when total_batch < min_size; and when
\* total_batch >= min_size the list is non-empty, ends with total_batch,
\* is strictly ascending, and its first element divides total_batch.
C19_NonDivisorOnlyBelowMinSize ==
    (rpc = "returned" /\ batch_size >= 1 /\ min_size >= 1) =>
        /\ (PyMod(batch_size, minibatch_size) # 0) <=> (batch_size < min_size)
        /\ batch_size >= min_size =>
              LET found == divisors.value
              IN  /\ Len(found) >= 1
                  /\ found[Len(found)] = batch_size
                  /\ \A k \in 1..(Len(found) - 1) : found[k] < found[k + 1]
                  /\ PyMod(batch_size, found[1]) = 0
                  /\ minibatch_size = found[1]

\* 12 with min_size 3: the list 3, 4, 6, 12 was found and 3 returned.
C19_Witness ==
    /\ rpc = "returned"
    /\ batch_size = 12
    /\ min_size = 3
    /\ divisors.value = <<3, 4, 6, 12>>

(***************************************************************************)
(* SearchSpaceBuilder: the constructors of rl_games_cfg.py, vision_cfg.py  *)
(* and hand_cfg.py.  Every __init__ has the parameter cfg={}: the default  *)
(* is one dict per class, made when the class is defined, and a            *)
(* constructor called without cfg fills that same dict again.  The         *)
(* variable cfg is this dict of the class the process constructs; the      *)
(* other classes' dicts are other objects and take no part.  cfg holds     *)
(* the entries of both sub-dicts in the order of their first insertion;    *)
(* util.populate_isaac_ray_cfg_args only creates the two empty sub-dicts.  *)
(***************************************************************************)

CfgClasses ==
    {"RLGamesJobCfg", "CameraJobCfg", "ResNetCameraJob", "TheiaCameraJob",
     "HandCfg"}

\* The keys the constructors test or that a dependent sampler reads.
NumEnvsKey == "--num_envs"
HorizonKey == "agent.params.config.horizon_length"
MinibatchKey == "agent.params.config.minibatch_size"
ModelNameKey == "env.observations.policy.image.params.model_name"
ConvsKey == "agent.params.network.cnn.convs"
MlpUnitsKey == "agent.params.network.mlp.units"

\* The values put into cfg: a plain value, tune.choice(categories), and
\* tune.sample_from(func) with what func reads or has captured.
Plain(v) == [kind |-> "value", value |-> v]
TuneChoice(categories) == [kind |-> "choice", categories |-> categories]
TuneRandint(lower, upper) == [kind |-> "randint", lower |-> lower, upper |-> upper]

\* key in cfg[section]
DictHas(d, section, key) ==
    \E i \in 1..Len(d) : d[i].section = section /\ d[i].key = key

\* The place of key among the entries, 0 when it is absent.
DictIndex(d, section, key) ==
    IF DictHas(d, section, key)
    THEN CHOOSE i \in 1..Len(d) : d[i].section = section /\ d[i].key = key
    ELSE 0

\* cfg[section][key] = value: a key already there keeps its place.
DictSet(d, section, key, value) ==
    IF DictHas(d, section, key)
    THEN [d EXCEPT ![DictIndex(d, section, key)].value = value]
    ELSE Append(d, [section |-> section, key |-> key, value |-> value])

\* Mutant of EnvCountBlock: the dependent sampler is inserted first.
EnvCountBlockSamplerFirst(d) ==
    LET d1 == DictSet(d, "hydra_args", MinibatchKey,
                      [kind  |-> "sample_from",
                       func  |-> "get_valid_batch_size",
                       reads |-> <<[section |-> "runner_args", key |-> NumEnvsKey],
                                   [section |-> "hydra_args", key |-> HorizonKey]>>])
        d2 == DictSet(d1, "runner_args", NumEnvsKey, TuneChoice(EnvCounts))
    IN  DictSet(d2, "hydra_args", HorizonKey, TuneChoice(HorizonLengths))

\* The body of  if vary_env_count:  the two choices, then the sampler that
\* reads them.
EnvCountBlock(d) ==
    LET d1 == DictSet(d, "runner_args", NumEnvsKey, TuneChoice(EnvCounts))
        d2 == DictSet(d1, "hydra_args", HorizonKey, TuneChoice(HorizonLengths))
    IN  DictSet(d2, "hydra_args", MinibatchKey,
                [kind  |-> "sample_from",
                 func  |-> "get_valid_batch_size",
                 reads |-> <<[section |-> "runner_args", key |-> NumEnvsKey],
                             [section |-> "hydra_args", key |-> HorizonKey]>>])

\* max_num_layers and max_neurons_per_layer as the  if vary_mlp:  block
\* sets them from the parameter and from the keys cfg["hydra_args"] holds
\* at that moment.  The parameter max_neurons_per_mlp_layer is not read.
MlpBounds(d, max_num_mlp_layers) ==
    LET given  == [max_num_layers |-> max_num_mlp_layers,
                   max_neurons_per_layer |-> 128]
        pretrained == IF DictHas(d, "hydra_args", ModelNameKey)
                      THEN [max_num_layers |-> 3, max_neurons_per_layer |-> 32]
                      ELSE given
    IN  IF DictHas(d, "hydra_args", ConvsKey)
        THEN [max_num_layers |-> 2, max_neurons_per_layer |-> 32]
        ELSE pretrained

\* The body of  if vary_mlp:  with the activation that .sample() drew.
MlpBlock(d, max_num_mlp_layers, activation) ==
    LET bounds == MlpBounds(d, max_num_mlp_layers)
        d1 == DictSet(d, "hydra_args", MlpUnitsKey,
                      [kind       |-> "sample_from",
                       func       |-> "get_mlp_layers",
                       num_layers |-> TuneRandint(1, bounds.max_num_layers),
                       max_neurons_per_layer |-> bounds.max_neurons_per_layer])
        d2 == DictSet(d1, "hydra_args",
                      "agent.params.network.mlp.initializer.name",
                      Plain("default"))
    IN  DictSet(d2, "hydra_args", "agent.params.network.mlp.activation",
                Plain(activation))

\* The body of  if vary_cnn:  in CameraJobCfg.__init__.
CnnBlock(d) ==
    LET d1 == DictSet(d, "hydra_args", "agent.params.network.cnn.type",
                      Plain("conv2d"))
        d2 == DictSet(d1, "hydra_args", "agent.params.network.cnn.activation",
                      TuneChoice(<<"relu", "elu">>))
        d3 == DictSet(d2, "hydra_args", "agent.params.network.cnn.initializer",
                      Plain("{name:default}"))
        d4 == DictSet(d3, "hydra_args", "agent.params.network.cnn.regularizer",
                      Plain("{name:None}"))
    IN  DictSet(d4, "hydra_args", ConvsKey,
                [kind       |-> "sample_from",
                 func       |-> "get_cnn_layers",
                 num_layers |-> TuneRandint(NumLayersLower, NumLayersUpper)])

\* The categories of the model_name choice of the two pretrained classes.
ModelNames(class) ==
    IF class = "ResNetCameraJob"
    THEN <<"resnet18", "resnet34", "resnet50", "resnet101">>
    ELSE <<"theia-tiny-patch16-224-cddsv", "theia-tiny-patch16-224-cdiv",
           "theia-small-patch16-224-cdiv", "theia-base-patch16-224-cdiv",
           "theia-small-patch16-224-cddsv", "theia-base-patch16-224-cddsv">>

\* A call of fn.__init__ with these arguments, at its first statement.
Frame(fn, vary_env_count, vary_cnn, vary_mlp, max_num_mlp_layers) ==
    [fn                 |-> fn,
     pos                |-> "enter",
     vary_env_count     |-> vary_env_count,
     vary_cnn           |-> vary_cnn,
     vary_mlp           |-> vary_mlp,
     max_num_mlp_layers |-> max_num_mlp_layers]

\* max_num_mlp_layers: int = 10
DefaultMaxNumMlpLayers == 10

\* max_num_mlp_layers=3 in CameraJobCfg's call of super().__init__
CameraMaxNumMlpLayers == 3

\* The call in progress, and the stack after it moved to pos.
Top == stack[Len(stack)]
TopAt(pos) == [stack EXCEPT ![Len(stack)].pos = pos]
AtPos(fn, pos) == stack # << >> /\ Top.fn = fn /\ Top.pos = pos

CfgInit ==
    /\ ResolverIdle
    /\ CnnIdle
    /\ SplitIdle
    /\ MainIdle
    /\ StreamIdle
    /\ bklass \in CfgClasses
    /\ cfg = << >>
    /\ stack = << >>
    /\ constructed = FALSE

\* The process constructs bklass without a cfg argument, with the flags the
\* class takes.
Construct ==
    /\ stack = << >>
    /\ \E e \in BOOLEAN, c \in BOOLEAN, m \in BOOLEAN :
          stack' = <<CASE bklass = "RLGamesJobCfg" ->
                              Frame(bklass, e, FALSE, m, DefaultMaxNumMlpLayers)
                       [] bklass = "CameraJobCfg" ->
                              Frame(bklass, e, c, m, 0)
                       [] OTHER ->
                              Frame(bklass, FALSE, FALSE, FALSE, 0)>>
    /\ constructed' = FALSE
    /\ UNCHANGED <<bklass, cfg>>
    /\ UNCHANGED notCfg

\* RLGamesJobCfg.__init__: populate, then the basic configuration.
RLBasic ==
    /\ AtPos("RLGamesJobCfg", "enter")
    /\ cfg' = DictSet(DictSet(cfg, "runner_args", "headless_singleton",
                              Plain("--headless")),
                      "hydra_args", "agent.params.config.max_epochs",
                      Plain(1500))
    /\ stack' = TopAt("env_count")
    /\ UNCHANGED <<bklass, constructed>>
    /\ UNCHANGED notCfg

\* if vary_env_count: ...
RLEnvCount ==
    /\ AtPos("RLGamesJobCfg", "env_count")
    /\ cfg' = IF Top.vary_env_count THEN EnvCountBlock(cfg) ELSE cfg
    /\ stack' = TopAt("mlp")
    /\ UNCHANGED <<bklass, constructed>>
    /\ UNCHANGED notCfg

\* if vary_mlp: ...
RLMlp ==
    /\ AtPos("RLGamesJobCfg", "mlp")
    /\ IF Top.vary_mlp
       THEN \E activation \in Choice(<<"relu", "tanh", "sigmoid", "elu">>) :
               cfg' = MlpBlock(cfg, Top.max_num_mlp_layers, activation)
       ELSE cfg' = cfg
    /\ stack' = TopAt("super")
    /\ UNCHANGED <<bklass, constructed>>
    /\ UNCHANGED notCfg

\* super().__init__(cfg) of RLGamesJobCfg (tuner.JobCfg keeps cfg), and the
\* return to the caller.
RLSuper ==
    /\ AtPos("RLGamesJobCfg", "super")
    /\ stack' = SubSeq(stack, 1, Len(stack) - 1)
    /\ constructed' = (Len(stack) = 1)
    /\ UNCHANGED <<bklass, cfg>>
    /\ UNCHANGED notCfg

\* CameraJobCfg.__init__: populate, then the first super().__init__ with
\* the caller's vary_env_count and vary_mlp.
CameraEnter ==
    /\ AtPos("CameraJobCfg", "enter")
    /\ stack' = Append(TopAt("enable_cameras"),
                       Frame("RLGamesJobCfg", Top.vary_env_count, FALSE,
                             Top.vary_mlp, CameraMaxNumMlpLayers))
    /\ UNCHANGED <<bklass, cfg, constructed>>
    /\ UNCHANGED notCfg

\* cfg["runner_args"]["enable_cameras_singleton"] = "--enable_cameras"
CameraEnable ==
    /\ AtPos("CameraJobCfg", "enable_cameras")
    /\ cfg' = DictSet(cfg, "runner_args", "enable_cameras_singleton",
                      Plain("--enable_cameras"))
    /\ stack' = TopAt("cnn")
    /\ UNCHANGED <<bklass, constructed>>
    /\ UNCHANGED notCfg

\* if vary_cnn: ...
CameraCnn ==
    /\ AtPos("CameraJobCfg", "cnn")
    /\ cfg' = IF Top.vary_cnn THEN CnnBlock(cfg) ELSE cfg
    /\ stack' = TopAt("super")
    /\ UNCHANGED <<bklass, constructed>>
    /\ UNCHANGED notCfg

\* The closing super().__init__(cfg) of CameraJobCfg, all flags at their
\* defaults.
CameraSuper ==
    /\ AtPos("CameraJobCfg", "super")
    /\ stack' = Append(TopAt("return"),
                       Frame("RLGamesJobCfg", FALSE, FALSE, FALSE,
                             DefaultMaxNumMlpLayers))
    /\ UNCHANGED <<bklass, cfg, constructed>>
    /\ UNCHANGED notCfg

\* ResNetCameraJob.__init__ and TheiaCameraJob.__init__: populate, then the
\* model_name choice.
PretrainedEnter ==
    /\ stack # << >>
    /\ Top.fn \in {"ResNetCameraJob", "TheiaCameraJob"}
    /\ Top.pos = "enter"
    /\ cfg' = DictSet(cfg, "hydra_args", ModelNameKey,
                      TuneChoice(ModelNames(Top.fn)))
    /\ stack' = TopAt("super")
    /\ UNCHANGED <<bklass, constructed>>
    /\ UNCHANGED notCfg

\* super().__init__(cfg, vary_env_count=True, vary_cnn=False, vary_mlp=True)
PretrainedSuper ==
    /\ stack # << >>
    /\ Top.fn \in {"ResNetCameraJob", "TheiaCameraJob"}
    /\ Top.pos = "super"
    /\ stack' = Append(TopAt("return"),
                       Frame("CameraJobCfg", TRUE, FALSE, TRUE, 0))
    /\ UNCHANGED <<bklass, cfg, constructed>>
    /\ UNCHANGED notCfg

\* HandCfg.__init__: populate, then the --task choice.
HandEnter ==
    /\ AtPos("HandCfg", "enter")
    /\ cfg' = DictSet(cfg, "runner_args", "--task",
                      TuneChoice(<<"Isaac-Repose-Cube-Shadow-Direct-v0">>))
    /\ stack' = TopAt("super")
    /\ UNCHANGED <<bklass, constructed>>
    /\ UNCHANGED notCfg

\* super().__init__(cfg, vary_env_count=False, vary_mlp=True)
HandSuper ==
    /\ AtPos("HandCfg", "super")
    /\ stack' = Append(TopAt("return"),
                       Frame("RLGamesJobCfg", FALSE, FALSE, TRUE,
                             DefaultMaxNumMlpLayers))
    /\ UNCHANGED <<bklass, cfg, constructed>>
    /\ UNCHANGED notCfg

\* An __init__ that has made its last call returns.
CfgReturn ==
    /\ stack # << >>
    /\ Top.pos = "return"
    /\ stack' = SubSeq(stack, 1, Len(stack) - 1)
    /\ constructed' = (Len(stack) = 1)
    /\ UNCHANGED <<bklass, cfg>>
    /\ UNCHANGED notCfg

CfgNext ==
    \/ Construct
    \/ RLBasic
    \/ RLEnvCount
    \/ RLMlp
    \/ RLSuper
    \/ CameraEnter
    \/ CameraEnable
    \/ CameraCnn
    \/ CameraSuper
    \/ PretrainedEnter
    \/ PretrainedSuper
    \/ HandEnter
    \/ HandSuper
    \/ CfgReturn

SpecCfg == CfgInit /\ [][CfgNext]_vars

\* C15: at every moment of every construction, when the minibatch-size
\* sampler is in cfg, each field it reads is in cfg too and was inserted
\* before it.
C15_DependentFieldAfterItsInputs ==
    DictHas(cfg, "hydra_args", MinibatchKey) =>
        LET at      == DictIndex(cfg, "hydra_args", MinibatchKey)
            sampler == cfg[at].value
        IN  /\ sampler.kind = "sample_from"
            /\ sampler.reads =
                  <<[section |-> "runner_args", key |-> NumEnvsKey],
                    [section |-> "hydra_args", key |-> HorizonKey]>>
            /\ \A r \in 1..Len(sampler.reads) :
                  /\ DictHas(cfg, sampler.reads[r].section, sampler.reads[r].key)
                  /\ DictIndex(cfg, sampler.reads[r].section,
                               sampler.reads[r].key) < at

\* A CameraJobCfg built with all three flags on: the sampler is in the
\* configuration together with the CNN and MLP samplers.
C15_Witness ==
    /\ constructed
    /\ bklass = "CameraJobCfg"
    /\ DictHas(cfg, "hydra_args", MinibatchKey)
    /\ DictHas(cfg, "hydra_args", ConvsKey)
    /\ DictHas(cfg, "hydra_args", MlpUnitsKey)

\* C17: a built configuration that holds both the conv-layer sampler and
\* the MLP sampler holds an MLP sampler with the reduced bounds:
\* tune.randint(1, 2) layers and at most 32 neurons per layer.
C17_ReducedMlpBoundsWithCnn ==
    (/\ constructed
     /\ DictHas(cfg, "hydra_args", ConvsKey)
     /\ DictHas(cfg, "hydra_args", MlpUnitsKey)) =>
        LET mlp == cfg[DictIndex(cfg, "hydra_args", MlpUnitsKey)].value
        IN  /\ mlp.num_layers = TuneRandint(1, 2)
            /\ mlp.max_neurons_per_layer = 32

(***************************************************************************)
(* The __main__ block, main and the remote jobs:                           *)
(* wrap_isaac_ray_resources.py                                             *)
(***************************************************************************)

RECURSIVE Gcd(_, _)
Gcd(a, b) ==
    IF b = 0 THEN a ELSE Gcd(b, a % b)

\* The exact quotient n / d (n >= 0, d >= 1) in lowest terms.  Python's /
\* gives the float nearest to it; the model keeps the quotient exact.
Quotient(n, d) ==
    [num |-> n \div Gcd(n, d), den |-> d \div Gcd(n, d)]

\* Mutant of TrueDiv: the share is rounded up to a whole unit.
TrueDivRoundedUp(a, b) ==
    Quotient((a + b - 1) \div b, 1)

\* Python's a / b for b # 0.
TrueDiv(a, b) ==
    Quotient(a, b)

\* q * k for a whole number k.
Times(q, k) ==
    Quotient(q.num * k, q.den)

Plus(q, r) ==
    Quotient(q.num * r.den + r.num * q.den, q.den * r.den)

AtMost(q, r) ==
    q.num * r.den <= r.num * q.den

Whole(k) ==
    Quotient(k, 1)

\* Python's s.split(sep) for a one-character sep: parts holds the pieces
\* closed so far, cur the piece being read, k the next character.
RECURSIVE SplitFrom(_, _, _, _, _)
SplitFrom(s, sep, k, parts, cur) ==
    IF k > Len(s) THEN Append(parts, cur)
    ELSE IF SubSeq(s, k, k) = sep
         THEN SplitFrom(s, sep, k + 1, Append(parts, cur), "")
         ELSE SplitFrom(s, sep, k + 1, parts, cur \o SubSeq(s, k, k))

PySplit(s, sep) ==
    SplitFrom(s, sep, 1, << >>, "")

\* The lists of seqs, one after the other.
RECURSIVE Concat(_)
Concat(seqs) ==
    IF seqs = << >> THEN << >>
    ELSE Concat(SubSeq(seqs, 1, Len(seqs) - 1)) \o seqs[Len(seqs)]

\* No token of args has a space in it.
SpaceFree(args) ==
    \A i \in 1..Len(args) :
        \A k \in 1..Len(args[i]) : SubSeq(args[i], k, k) # " "

\* What C20 says of the commands out returned for args: the commands split
\* on spaces and put one after the other are args; in a command only the
\* first token can end in ".py"; tokens before the first marker are the
\* first command; no tokens give no commands.
ConservesTokens(args, out) ==
    /\ Concat([i \in 1..Len(out) |-> PySplit(out[i], " ")]) = args
    /\ \A i \in 1..Len(out) :
          LET toks == PySplit(out[i], " ")
          IN  \A k \in 2..Len(toks) : ~EndsWith(toks[k], ".py")
    /\ (args # << >> /\ 1 \notin Markers(args)) =>
          LET lead == IF Markers(args) = {} THEN Len(args)
                      ELSE (CHOOSE m \in Markers(args) :
                              \A h \in Markers(args) : m <= h) - 1
          IN  /\ out # << >>
              /\ out[1] = Join(" ", SubSeq(args, 1, lead))
    /\ args = << >> => out = << >>

\* C20 as stated: split_commands conserves the tokens of every input.
C20_SplitConservesTokens ==
    spc = "returned" => ConservesTokens(split_args, split_out)

\* C20 amended: split_commands conserves the tokens of every input none of
\* whose tokens contains a space.
C20_SplitConservesSpaceFreeTokens ==
    (spc = "returned" /\ SpaceFree(split_args)) =>
        ConservesTokens(split_args, split_out)

\* An input that starts with a token that is no marker: the leading command
\* "--lr", then "train.py 0.1".
C20_Witness ==
    /\ spc = "returned"
    /\ split_args = <<"--lr", "train.py", "0.1">>
    /\ split_out = <<"--lr", "train.py 0.1">>

\* full_invocation = ['./isaaclab.sh', "-p"] + command.split(";")
FullInvocation(command) ==
    <<"./isaaclab.sh", "-p">> \o PySplit(command, ";")

\* The argument list of the test-mode probe.
ProbeInvocation ==
    <<"nvidia-smi", "--query-gpu=name,memory.free,serial",
      "--format=csv,noheader,nounits">>

\* The ways a run of execute_command can go.  In test mode: the probe
\* succeeds; nvidia-smi exits non-zero (CalledProcessError, caught);
\* nvidia-smi is not installed (FileNotFoundError, not caught); a line of its
\* output has no three ", "-separated fields (ValueError, not caught).
\* Otherwise: the command exits zero; it exits non-zero; Popen raises
\* (caught by except Exception).
TestOutcomes == {"probe_ok", "probe_exit_nonzero", "probe_not_found",
                 "probe_malformed"}
CommandOutcomes == {"exit_zero", "exit_nonzero", "popen_raised"}

\* The outcomes in which the job's command or probe failed.
FailedOutcomes == {"probe_exit_nonzero", "probe_not_found", "probe_malformed",
                   "exit_nonzero", "popen_raised"}

\* The outcomes whose exception leaves execute_command.
RaisingOutcomes == {"probe_not_found", "probe_malformed"}

\* result_details when execute_command returns.
ResultDetails(outcome) ==
    CASE outcome = "probe_ok" ->
            <<[Name |-> "gpu", MemoryAvailable |-> "free MB", SerialNumber |-> "serial"]>>
      [] outcome = "probe_exit_nonzero" ->
            <<[error |-> "Failed to retrieve GPU information"]>>
      [] OTHER -> << >>

\* The command line tokens and cluster counts the program is started with.
ArgvTokens == {"train.py", "--lr"}
MaxArgv == 4

ArgvInputs ==
    UNION {[1..k -> ArgvTokens] : k \in 0..MaxArgv}

ClusterInputs ==
    {[gpu |-> 8, cpu |-> 32, ram_gb |-> 128],
     [gpu |-> 0, cpu |-> 32, ram_gb |-> 128],
     [gpu |-> 1, cpu |-> 4, ram_gb |-> 16]}

Init ==
    /\ ResolverIdle
    /\ CnnIdle
    /\ SplitIdle
    /\ StreamIdle
    /\ CfgIdle
    /\ pc = "start"
    /\ argv \in ArgvInputs
    /\ test_mode \in BOOLEAN
    /\ cluster \in ClusterInputs
    /\ commands = << >>
    /\ per_worker = [gpus |-> NoShare, cpus |-> NoShare, memory |-> NoShare]
    /\ submit_i = 0
    /\ jobs = << >>
    /\ results = << >>
    /\ printed = << >>
    /\ overtaken = FALSE

\* The __main__ block up to the call of main: split the commands and divide
\* the cluster counts by len(commands).  With no command the first division
\* raises ZeroDivisionError and the program ends.
MainBlock ==
    /\ pc = "start"
    /\ commands' = SplitCommands(argv)
    /\ IF Len(commands') = 0
       THEN /\ pc' = "ZeroDivisionError"
            /\ UNCHANGED per_worker
       ELSE /\ per_worker' =
                 [gpus   |-> TrueDiv(cluster.gpu, Len(commands')),
                  cpus   |-> TrueDiv(cluster.cpu, Len(commands')),
                  memory |-> TrueDiv(cluster.ram_gb, Len(commands'))]
            /\ pc' = "submit"
    /\ UNCHANGED <<argv, test_mode, cluster, submit_i, jobs, results, printed,
                   overtaken>>
    /\ UNCHANGED notMain

\* One pass of main's for loop: execute_command.options(...).remote(...).
Submit ==
    /\ pc = "submit"
    /\ submit_i < Len(commands)
    /\ LET command == IF ~test_mode THEN commands[submit_i + 1] ELSE "nvidia-smi"
       IN  jobs' = Append(jobs,
                [command   |-> command,
                 test_mode |-> test_mode,
                 num_gpus  |-> per_worker.gpus,
                 num_cpus  |-> per_worker.cpus,
                 memory    |-> Times(per_worker.memory, 1024),
                 state     |-> "submitted",
                 launched  |-> << >>,
                 outcome   |-> "none",
                 result    |-> << >>])
    /\ submit_i' = submit_i + 1
    /\ UNCHANGED <<pc, argv, test_mode, cluster, commands, per_worker, results,
                   printed, overtaken>>
    /\ UNCHANGED notMain

\* The for loop is exhausted; main goes on to ray.get.
SubmitEnd ==
    /\ pc = "submit"
    /\ submit_i >= Len(commands)
    /\ pc' = "get"
    /\ UNCHANGED <<argv, test_mode, cluster, commands, per_worker, submit_i,
                   jobs, results, printed, overtaken>>
    /\ UNCHANGED notMain

\* A worker that launches the command it was given whatever the test flag.
JobStartIgnoringTestMode(j) ==
    /\ jobs[j].state = "submitted"
    /\ jobs' = [jobs EXCEPT ![j].state = "running",
                            ![j].launched = FullInvocation(jobs[j].command)]
    /\ UNCHANGED <<pc, argv, test_mode, cluster, commands, per_worker,
                   submit_i, results, printed, overtaken>>
    /\ UNCHANGED notMain

\* A worker starts execute_command for job j and launches the probe or the
\* user command.
JobStart(j) ==
    /\ jobs[j].state = "submitted"
    /\ jobs' = [jobs EXCEPT ![j].state = "running",
                            ![j].launched =
                                IF jobs[j].test_mode THEN ProbeInvocation
                                ELSE FullInvocation(jobs[j].command)]
    /\ UNCHANGED <<pc, argv, test_mode, cluster, commands, per_worker,
                   submit_i, results, printed, overtaken>>
    /\ UNCHANGED notMain

\* execute_command of job j ends: it returns its result, or an exception
\* that it does not catch leaves it.
JobEnd(j) ==
    /\ jobs[j].state = "running"
    /\ \E outcome \in (IF jobs[j].test_mode THEN TestOutcomes ELSE CommandOutcomes) :
          jobs' = [jobs EXCEPT
                     ![j].outcome = outcome,
                     ![j].state = IF outcome \in RaisingOutcomes
                                  THEN "raised" ELSE "returned",
                     ![j].result = IF outcome \in RaisingOutcomes THEN << >>
                                   ELSE <<[job |-> j,
                                           result_details |-> ResultDetails(outcome)]>>]
    /\ overtaken' = (overtaken \/
                     \E h \in 1..(j - 1) : jobs[h].state \in {"submitted", "running"})
    /\ UNCHANGED <<pc, argv, test_mode, cluster, commands, per_worker,
                   submit_i, results, printed>>
    /\ UNCHANGED notMain

JobTerminated(job) ==
    job.state \in {"returned", "raised"}

\* A collection that returns as soon as some job has terminated, with the
\* results that exist by then (ray.wait rather than ray.get).
RayGetFirstCompleted ==
    /\ pc = "get"
    /\ \E j \in 1..Len(jobs) : JobTerminated(jobs[j])
    /\ LET finished == SelectSeq(jobs, LAMBDA job : job.state = "returned")
       IN  results' = [k \in 1..Len(finished) |-> finished[k].result[1]]
    /\ pc' = "print"
    /\ UNCHANGED <<argv, test_mode, cluster, commands, per_worker, submit_i,
                   jobs, printed, overtaken>>
    /\ UNCHANGED notMain

\* results = ray.get(job_results): waits for every job; the exception of a
\* job that raised is raised again here, leaves main and ends the program.
RayGet ==
    /\ pc = "get"
    /\ \A j \in 1..Len(jobs) : JobTerminated(jobs[j])
    /\ IF \E j \in 1..Len(jobs) : jobs[j].state = "raised"
       THEN /\ pc' = "RayTaskError"
            /\ UNCHANGED results
       ELSE /\ results' = [j \in 1..Len(jobs) |-> jobs[j].result[1]]
            /\ pc' = "print"
    /\ UNCHANGED <<argv, test_mode, cluster, commands, per_worker, submit_i,
                   jobs, printed, overtaken>>
    /\ UNCHANGED notMain

\* One pass of: for i, result in enumerate(results, 1): print(...)
PrintResult ==
    /\ pc = "print"
    /\ Len(printed) < Len(results)
    /\ printed' = Append(printed,
            [i |-> Len(printed) + 1, result |-> results[Len(printed) + 1]])
    /\ UNCHANGED <<pc, argv, test_mode, cluster, commands, per_worker,
                   submit_i, jobs, results, overtaken>>
    /\ UNCHANGED notMain

\* "All jobs completed."
PrintEnd ==
    /\ pc = "print"
    /\ Len(printed) >= Len(results)
    /\ pc' = "done"
    /\ UNCHANGED <<argv, test_mode, cluster, commands, per_worker, submit_i,
                   jobs, results, printed, overtaken>>
    /\ UNCHANGED notMain

Next ==
    \/ MainBlock
    \/ Submit
    \/ SubmitEnd
    \/ \E j \in 1..Len(jobs) : JobStart(j)
    \/ \E j \in 1..Len(jobs) : JobEnd(j)
    \/ RayGet
    \/ PrintResult
    \/ PrintEnd

Spec == Init /\ [][Next]_vars

\* The program has ended: normally, or by an exception.
Ended ==
    pc \in {"done", "RayTaskError", "ZeroDivisionError"}

\* C1: when the program has ended, it has printed exactly one result line
\* per submitted job, and the i-th line holds the result of the i-th
\* submitted job, whatever the order in which the jobs completed.
C1_OneResultLinePerJobInOrder ==
    Ended =>
        /\ Len(printed) = Len(jobs)
        /\ \A i \in 1..Len(printed) :
              /\ printed[i].i = i
              /\ printed[i].result.job = i

\* C2: a job whose command or probe failed has returned a result with an
\* error recorded in it (nothing was raised to the dispatcher), and when the
\* program has ended every job has its result printed.
C2_FailureRecordedAndIsolated ==
    /\ \A j \in 1..Len(jobs) :
          (JobTerminated(jobs[j]) /\ jobs[j].outcome \in FailedOutcomes) =>
              /\ jobs[j].state = "returned"
              /\ \E k \in 1..Len(jobs[j].result[1].result_details) :
                    "error" \in DOMAIN jobs[j].result[1].result_details[k]
    /\ (Ended /\ jobs # << >>) =>
          /\ \A j \in 1..Len(jobs) : jobs[j].state = "returned"
          /\ Len(printed) = Len(jobs)

\* The sum of the shares q[1], ..., q[n].
RECURSIVE Sum(_, _)
Sum(q, n) ==
    IF n = 0 THEN Whole(0) ELSE Plus(Sum(q, n - 1), q[n])

\* C7: once the shares are computed each is the cluster count divided by the
\* number of jobs (8/32/128 with 4 jobs gives 2/8/32), every submitted job is
\* granted exactly these shares (the memory share times 1024), and in every
\* state the grants of the submitted jobs sum to at most the cluster count
\* in each dimension.
C7_GrantsAreEvenSharesWithinCapacity ==
    pc \notin {"start", "ZeroDivisionError"} =>
        LET n == Len(commands)
        IN  /\ Times(per_worker.gpus, n) = Whole(cluster.gpu)
            /\ Times(per_worker.cpus, n) = Whole(cluster.cpu)
            /\ Times(per_worker.memory, n) = Whole(cluster.ram_gb)
            /\ (cluster = [gpu |-> 8, cpu |-> 32, ram_gb |-> 128] /\ n = 4) =>
                  per_worker = [gpus |-> Whole(2), cpus |-> Whole(8),
                                memory |-> Whole(32)]
            /\ \A j \in 1..Len(jobs) :
                  /\ jobs[j].num_gpus = per_worker.gpus
                  /\ jobs[j].num_cpus = per_worker.cpus
                  /\ jobs[j].memory = Times(per_worker.memory, 1024)
            /\ AtMost(Sum([j \in 1..Len(jobs) |-> jobs[j].num_gpus], Len(jobs)),
                      Whole(cluster.gpu))
            /\ AtMost(Sum([j \in 1..Len(jobs) |-> jobs[j].num_cpus], Len(jobs)),
                      Whole(cluster.cpu))
            /\ AtMost(Sum([j \in 1..Len(jobs) |-> jobs[j].memory], Len(jobs)),
                      Whole(cluster.ram_gb * 1024))

\* The spec's example: four jobs on 8/32/128, all submitted with 2/8/32.
C7_Witness ==
    /\ cluster = [gpu |-> 8, cpu |-> 32, ram_gb |-> 128]
    /\ Len(jobs) = 4
    /\ \A j \in 1..4 : /\ jobs[j].num_gpus = Whole(2)
                       /\ jobs[j].num_cpus = Whole(8)
                       /\ jobs[j].memory = Whole(32 * 1024)

\* Some per-worker share is zero or less.
ShareNotPositive ==
    \/ per_worker.gpus.num <= 0
    \/ per_worker.cpus.num <= 0
    \/ per_worker.memory.num <= 0

\* C8: once the __main__ block has done its divisions, a job count <= 0 or a
\* per-job share <= 0 in some dimension has ended the program with an error
\* and no job is submitted.
C8_NonPositiveAllocationFails ==
    (pc # "start" /\ (Len(commands) <= 0 \/ ShareNotPositive)) =>
        /\ pc = "ZeroDivisionError"
        /\ jobs = << >>

\* C11: main submits without waiting: while the for loop has a command left
\* the next submission is possible whatever the earlier jobs are doing; and
\* it joins all: once a result has been collected or printed, every parsed
\* command has been submitted and every submitted job has terminated.
C11_SubmitAllThenJoinAll ==
    /\ (pc = "submit" /\ submit_i < Len(commands)) => ENABLED Submit
    /\ (pc \in {"print", "done"} \/ results # << >> \/ printed # << >>) =>
          /\ Len(jobs) = Len(commands)
          /\ \A j \in 1..Len(jobs) : JobTerminated(jobs[j])

\* Results are being printed of a run in which a later job ended while an
\* earlier one was still unfinished, so the later one was submitted without
\* waiting for the earlier one.
C11_Witness ==
    /\ printed # << >>
    /\ Len(jobs) >= 2
    /\ overtaken

\* C12: a job that has started has launched exactly one program: with the
\* test flag on, the fixed GPU probe and not the user command; with the
\* flag off, the invocation of its own parsed command and not the probe.
C12_TestModeRunsOnlyProbe ==
    \A j \in 1..Len(jobs) :
        /\ jobs[j].test_mode = test_mode
        /\ jobs[j].state = "submitted" => jobs[j].launched = << >>
        /\ jobs[j].state # "submitted" =>
              IF test_mode
              THEN /\ jobs[j].launched = ProbeInvocation
                   /\ jobs[j].launched # FullInvocation(commands[j])
              ELSE /\ jobs[j].launched = FullInvocation(commands[j])
                   /\ jobs[j].launched # ProbeInvocation

\* A test-mode run of two jobs, both of which have run the probe to its end.
C12_Witness ==
    /\ test_mode
    /\ Len(jobs) = 2
    /\ \A j \in 1..2 : /\ jobs[j].state = "returned"
                       /\ jobs[j].launched = ProbeInvocation

\* C13: the submissions follow the parsed command list one to one (the j-th
\* job is the j-th command, none twice, none skipped, all of them submitted
\* once the loop is over), no job is cancelled, and a job that has terminated
\* has ended with a job result.
C13_EveryCommandSubmittedOnceAndEndsWithResult ==
    /\ Len(jobs) = submit_i
    /\ submit_i <= Len(commands)
    /\ pc \notin {"start", "submit", "ZeroDivisionError"} =>
          Len(jobs) = Len(commands)
    /\ \A j \in 1..Len(jobs) :
          /\ ~test_mode => jobs[j].command = commands[j]
          /\ JobTerminated(jobs[j]) =>
                /\ jobs[j].state = "returned"
                /\ Len(jobs[j].result) = 1

(***************************************************************************)
(* The user-command branch of execute_command, its child process and the   *)
(* two pipes of Popen(stdout=PIPE, stderr=PIPE)                            *)
(***************************************************************************)

\* The child writes at most MaxWrites lines; a pipe holds at most pipe_cap
\* lines, pipe_cap at most MaxPipeCap.
MaxWrites == 3
MaxPipeCap == 2

\* The child's writes in order, each to "stdout" or to "stderr".
ChildScripts ==
    UNION {[1..k -> {"stdout", "stderr"}] : k \in 0..MaxWrites}

StreamInit ==
    /\ ResolverIdle
    /\ CnnIdle
    /\ SplitIdle
    /\ MainIdle
    /\ CfgIdle
    /\ epc = "popen"
    /\ child_script \in ChildScripts
    /\ child_pos = 0
    /\ child_state = "none"
    /\ returncode = 0
    /\ pipe_cap \in 1..MaxPipeCap
    /\ stdout_pipe = << >>
    /\ stderr_pipe = << >>
    /\ live_lines = << >>
    /\ comm_stdout = << >>
    /\ comm_stderr = << >>
    /\ exec_result = << >>

\* process = subprocess.Popen(full_invocation, stdout=PIPE, stderr=PIPE):
\* the child starts, or Popen raises and except Exception logs it.
Popen ==
    /\ epc = "popen"
    /\ \E started \in BOOLEAN :
          IF started
          THEN /\ child_state' = "running"
               /\ epc' = "read_stdout"
          ELSE /\ child_state' = "none"
               /\ epc' = "finish"
    /\ UNCHANGED <<child_script, child_pos, returncode, pipe_cap, stdout_pipe,
                   stderr_pipe, live_lines, comm_stdout, comm_stderr,
                   exec_result>>
    /\ UNCHANGED notStream

\* The child writes its next line; the write blocks while the pipe is full.
ChildWrite ==
    /\ child_state = "running"
    /\ child_pos < Len(child_script)
    /\ LET fd == child_script[child_pos + 1]
       IN  IF fd = "stdout"
           THEN /\ Len(stdout_pipe) < pipe_cap
                /\ stdout_pipe' = Append(stdout_pipe, child_pos + 1)
                /\ UNCHANGED stderr_pipe
           ELSE /\ Len(stderr_pipe) < pipe_cap
                /\ stderr_pipe' = Append(stderr_pipe, child_pos + 1)
                /\ UNCHANGED stdout_pipe
    /\ child_pos' = child_pos + 1
    /\ UNCHANGED <<epc, child_script, child_state, returncode, pipe_cap,
                   live_lines, comm_stdout, comm_stderr, exec_result>>
    /\ UNCHANGED notStream

\* The child has made all its writes and exits, closing both pipes.
ChildExit ==
    /\ child_state = "running"
    /\ child_pos = Len(child_script)
    /\ child_state' = "exited"
    /\ \E code \in {0, 1} : returncode' = code
    /\ UNCHANGED <<epc, child_script, child_pos, pipe_cap, stdout_pipe,
                   stderr_pipe, live_lines, comm_stdout, comm_stderr,
                   exec_result>>
    /\ UNCHANGED notStream

\* One pass of: for line in process.stdout: print(line); logging.info(...)
ReadStdoutLine ==
    /\ epc = "read_stdout"
    /\ stdout_pipe # << >>
    /\ live_lines' = Append(live_lines, Head(stdout_pipe))
    /\ stdout_pipe' = Tail(stdout_pipe)
    /\ UNCHANGED <<epc, child_script, child_pos, child_state, returncode,
                   pipe_cap, stderr_pipe, comm_stdout, comm_stderr,
                   exec_result>>
    /\ UNCHANGED notStream

\* The for loop ends at end of file: the pipe is empty and the child has
\* closed it.
ReadStdoutEof ==
    /\ epc = "read_stdout"
    /\ stdout_pipe = << >>
    /\ child_state = "exited"
    /\ epc' = "communicate"
    /\ UNCHANGED <<child_script, child_pos, child_state, returncode, pipe_cap,
                   stdout_pipe, stderr_pipe, live_lines, comm_stdout,
                   comm_stderr, exec_result>>
    /\ UNCHANGED notStream

\* stdout, stderr = process.communicate(): reads what is left of both pipes.
CommunicateRead ==
    /\ epc = "communicate"
    /\ stderr_pipe # << >>
    /\ comm_stderr' = Append(comm_stderr, Head(stderr_pipe))
    /\ stderr_pipe' = Tail(stderr_pipe)
    /\ UNCHANGED <<epc, child_script, child_pos, child_state, returncode,
                   pipe_cap, stdout_pipe, live_lines, comm_stdout,
                   exec_result>>
    /\ UNCHANGED notStream

\* communicate() returns at end of file of both pipes, the child waited for;
\* a non-empty stderr is then logged.
CommunicateEnd ==
    /\ epc = "communicate"
    /\ stdout_pipe = << >>
    /\ stderr_pipe = << >>
    /\ child_state = "exited"
    /\ epc' = "finish"
    /\ UNCHANGED <<child_script, child_pos, child_state, returncode, pipe_cap,
                   stdout_pipe, stderr_pipe, live_lines, comm_stdout,
                   comm_stderr, exec_result>>
    /\ UNCHANGED notStream

\* The result string is built from result_details, which this branch never
\* appends to, and returned.
ExecReturn ==
    /\ epc = "finish"
    /\ exec_result' = <<[result_details |-> ResultDetails("exit_zero")]>>
    /\ epc' = "returned"
    /\ UNCHANGED <<child_script, child_pos, child_state, returncode, pipe_cap,
                   stdout_pipe, stderr_pipe, live_lines, comm_stdout,
                   comm_stderr>>
    /\ UNCHANGED notStream

StreamNext ==
    \/ Popen
    \/ ChildWrite
    \/ ChildExit
    \/ ReadStdoutLine
    \/ ReadStdoutEof
    \/ CommunicateRead
    \/ CommunicateEnd
    \/ ExecReturn

SpecStream == StreamInit /\ [][StreamNext]_vars

\* C10: execute_command is never stuck: in every state it has returned, or
\* the child or execute_command itself can take a step, so that a child
\* whose writes are finite always runs to its exit and execute_command to
\* its return.
C10_StreamingNeverBlocks ==
    epc = "returned" \/ ENABLED StreamNext

\* The lines the child's script writes to stdout, in the order written.
StdoutWrites(script) ==
    SelectSeq([k \in 1..Len(script) |-> k], LAMBDA k : script[k] = "stdout")

\* The result holds the line among its result details.
RetainedIn(result, line) ==
    \E d \in 1..Len(result.result_details) :
        /\ "stdout" \in DOMAIN result.result_details[d]
        /\ result.result_details[d].stdout = line

\* C16: the lines delivered live are at every moment the first stdout lines
\* the child wrote, in the order written; and when execute_command has
\* returned, every stdout line the child wrote has been delivered and is
\* also held by the returned result.
C16_StdoutStreamedInOrderAndRetained ==
    /\ Len(live_lines) <= Len(StdoutWrites(child_script))
    /\ live_lines = SubSeq(StdoutWrites(child_script), 1, Len(live_lines))
    /\ (epc = "returned" /\ child_state = "exited") =>
          /\ live_lines = StdoutWrites(child_script)
          /\ \A k \in 1..Len(live_lines) :
                RetainedIn(exec_result[1], live_lines[k])

====
